---- MODULE Spec2Model ----
(***************************************************************************)
(* Ledger engine of the payments engine (src/src/engine.rs).               *)
(*                                                                         *)
(* The engine owns three maps/sets: accounts (client id -> Account),       *)
(* transactions (transaction id -> stored TransactionRecord) and disputes  *)
(* (set of transaction ids under open dispute).  Its only operation is     *)
(* process_transaction(record).  Decimal amounts are modelled as integers  *)
(* counted in units of the smallest fractional digit (exact arithmetic;    *)
(* Decimal is signed, so a negative amount is a legal input).              *)
(***************************************************************************)
EXTENDS Integers, FiniteSets, Sequences, TLC

\* ------------------------------------------------------------------ bounds
MaxClient == 2
MaxAmount == 1
\* balances explored lie in -MaxBalance..MaxBalance (Decimal itself is a
\* 96-bit signed mantissa; repeated dispute/chargeback of one transaction
\* moves balances without limit)
MaxBalance == 2

Clients == 1..MaxClient
\* two transaction ids: a call reads the one id of its record, the second id
\* is "another" transaction (of the same or of another client)
TxIds == {1, 2}
\* one negative amount, zero, and the positive amounts up to MaxAmount
Amounts == {-1} \cup (0..MaxAmount)

\* ------------------------------------------------------------- data model
\* Option<Decimal>: None is the empty tuple, Some(a) the one-element tuple.
None == <<>>
Some(a) == <<a>>
\* mutant: a zero amount taken for a missing one
is_some_nonzero(o) == Len(o) = 1 /\ o[1] # 0

is_some(o) == Len(o) = 1
unwrap(o) == o[1]

TransactionType == {"Deposit", "Withdrawal", "Dispute", "Resolve", "Chargeback"}

\* A deposit or withdrawal record carries an optional amount.  The dispute,
\* resolve and chargeback arms never read record.amount, and the input format
\* leaves it absent for them.
TransactionRecord ==
    [transaction_type : {"Deposit", "Withdrawal"},
     client_id : Clients,
     transaction_id : TxIds,
     amount : {None} \cup {Some(a) : a \in Amounts}]
    \cup
    [transaction_type : {"Dispute", "Resolve", "Chargeback"},
     client_id : Clients,
     transaction_id : TxIds,
     amount : {None}]

Account_new == [available |-> 0, held |-> 0, total |-> 0, locked |-> FALSE]

Ok == [tag |-> "Ok"]
AccountNotFound(c, ty) ==
    [tag |-> "AccountNotFound", client_id |-> c, transaction_type |-> ty]
TransactionNotFound(t, ty) ==
    [tag |-> "TransactionNotFound", transaction_id |-> t, transaction_type |-> ty]

\* ------------------------------------------------------------------ state
VARIABLES accounts, transactions, disputes, result,
          \* history: per client, the sum of the amounts of the chargebacks
          \* accepted so far (the engine keeps no record of them)
          charged_back

vars == <<accounts, transactions, disputes, result, charged_back>>

\* the engine proper, as one value
Engine == [accounts |-> accounts, transactions |-> transactions, disputes |-> disputes]

\* outcome of a call: the engine afterwards and the value returned
Outcome(a, t, d, r) == [accounts |-> a, transactions |-> t, disputes |-> d, result |-> r]
Skip(e) == Outcome(e.accounts, e.transactions, e.disputes, Ok)
\* mutant: a structural error swallowed as a skip
Fail_as_skip(e, err) == Skip(e)

Fail(e, err) == Outcome(e.accounts, e.transactions, e.disputes, err)

contains_key(m, k) == k \in DOMAIN m
insert(m, k, v) == IF k \in DOMAIN m THEN [m EXCEPT ![k] = v] ELSE (k :> v) @@ m

\* -------------------------------------------------------------- Deposit arm
\* mutants of the Deposit arm
deposit_id_never_used(e, transaction_id) == FALSE
deposit_apply_total_forgotten(account, amount) ==
    [account EXCEPT !.available = @ + amount]

\* if account.locked
deposit_locked(account) == account.locked
\* if self.transactions.contains_key(&transaction_id)
deposit_id_used(e, transaction_id) == contains_key(e.transactions, transaction_id)
\* account.available += amount; account.total += amount;
deposit_apply(account, amount) ==
    [account EXCEPT !.available = @ + amount, !.total = @ + amount]

Deposit(e, rec) ==
    LET client_id == rec.client_id
        transaction_id == rec.transaction_id
    IN  IF ~is_some(rec.amount) THEN Skip(e)
        ELSE
        LET amount == unwrap(rec.amount)
            \* accounts.entry(client_id).or_insert_with(Account::new)
            accts == IF contains_key(e.accounts, client_id)
                     THEN e.accounts
                     ELSE insert(e.accounts, client_id, Account_new)
            account == accts[client_id]
            Created == Outcome(accts, e.transactions, e.disputes, Ok)
        IN  IF deposit_locked(account) THEN Created
            ELSE IF deposit_id_used(e, transaction_id) THEN Created
            ELSE Outcome(
                    insert(accts, client_id, deposit_apply(account, amount)),
                    insert(e.transactions, transaction_id, rec),
                    e.disputes, Ok)

\* ----------------------------------------------------------- Withdrawal arm
\* mutant of the Withdrawal arm
withdrawal_lock_ignored(account) == FALSE

sufficient_funds_strict(account, amount) == account.available > amount
sufficient_funds_always(account, amount) == TRUE

withdrawal_id_never_used(e, transaction_id) == FALSE

\* if account.locked
withdrawal_locked(account) == account.locked
\* if self.transactions.contains_key(&transaction_id)
withdrawal_id_used(e, transaction_id) == contains_key(e.transactions, transaction_id)
\* if account.available >= amount
sufficient_funds(account, amount) == account.available >= amount
\* account.available -= amount; account.total -= amount;
withdrawal_apply(account, amount) ==
    [account EXCEPT !.available = @ - amount, !.total = @ - amount]

Withdrawal(e, rec) ==
    LET client_id == rec.client_id
        transaction_id == rec.transaction_id
    IN  IF ~is_some(rec.amount) THEN Skip(e)
        ELSE IF ~contains_key(e.accounts, client_id) THEN Skip(e)
        ELSE
        LET amount == unwrap(rec.amount)
            account == e.accounts[client_id]
        IN  IF withdrawal_locked(account) THEN Skip(e)
            ELSE IF withdrawal_id_used(e, transaction_id) THEN Skip(e)
            ELSE IF sufficient_funds(account, amount)
            THEN Outcome(
                    insert(e.accounts, client_id, withdrawal_apply(account, amount)),
                    insert(e.transactions, transaction_id, rec),
                    e.disputes, Ok)
            ELSE Skip(e)

\* -------------------------------------------------------------- Dispute arm
\* mutants of the Dispute arm
already_disputed_ignored(e, transaction_id) == FALSE
dispute_apply_held_forgotten(account, amount) ==
    [account EXCEPT !.available = @ - amount]

dispute_client_unchecked(client_id, disputed_transaction) == FALSE
dispute_apply_unless_locked(account, amount) ==
    IF account.locked
    THEN account
    ELSE [account EXCEPT !.available = @ - amount, !.held = @ + amount]

\* if self.disputes.contains(&transaction_id)
already_disputed(e, transaction_id) == transaction_id \in e.disputes
\* if client_id != disputed_transaction.client_id
dispute_client_mismatch(client_id, disputed_transaction) ==
    client_id # disputed_transaction.client_id
\* account.available -= amount; account.held += amount;
dispute_apply(account, amount) ==
    [account EXCEPT !.available = @ - amount, !.held = @ + amount]

Dispute(e, rec) ==
    LET client_id == rec.client_id
        transaction_id == rec.transaction_id
    IN  IF ~contains_key(e.transactions, transaction_id) THEN Skip(e)
        ELSE
        LET disputed_transaction == e.transactions[transaction_id]
        IN  IF already_disputed(e, transaction_id) THEN Skip(e)
            ELSE IF dispute_client_mismatch(client_id, disputed_transaction) THEN Skip(e)
            ELSE IF ~contains_key(e.accounts, disputed_transaction.client_id)
            THEN Fail(e, AccountNotFound(client_id, "Dispute"))
            ELSE IF is_some(disputed_transaction.amount)
            THEN LET amount == unwrap(disputed_transaction.amount)
                     account == e.accounts[disputed_transaction.client_id]
                 IN  Outcome(
                        insert(e.accounts, disputed_transaction.client_id,
                               dispute_apply(account, amount)),
                        e.transactions,
                        e.disputes \cup {transaction_id}, Ok)
            ELSE Skip(e)

\* -------------------------------------------------------------- Resolve arm
\* mutant of the Resolve arm
resolve_apply_total_reduced(account, amount) ==
    [account EXCEPT !.held = @ - amount, !.total = @ - amount]

resolve_apply_available_forgotten(account, amount) ==
    [account EXCEPT !.held = @ - amount]
resolve_client_unchecked(client_id, disputed_transaction) == FALSE

\* if !self.disputes.contains(&transaction_id)
resolve_not_disputed(e, transaction_id) == transaction_id \notin e.disputes
\* if client_id != disputed_transaction.client_id
resolve_client_mismatch(client_id, disputed_transaction) ==
    client_id # disputed_transaction.client_id
\* account.held -= amount; account.available += amount;
resolve_apply(account, amount) ==
    [account EXCEPT !.held = @ - amount, !.available = @ + amount]

Resolve(e, rec) ==
    LET client_id == rec.client_id
        transaction_id == rec.transaction_id
    IN  IF resolve_not_disputed(e, transaction_id) THEN Skip(e)
        ELSE IF ~contains_key(e.transactions, transaction_id)
        THEN Fail(e, TransactionNotFound(transaction_id, "Dispute"))
        ELSE
        LET disputed_transaction == e.transactions[transaction_id]
        IN  IF resolve_client_mismatch(client_id, disputed_transaction) THEN Skip(e)
            ELSE IF ~contains_key(e.accounts, disputed_transaction.client_id)
            THEN Fail(e, AccountNotFound(client_id, "Resolve"))
            ELSE IF is_some(disputed_transaction.amount)
            THEN LET amount == unwrap(disputed_transaction.amount)
                     account == e.accounts[disputed_transaction.client_id]
                 IN  Outcome(
                        insert(e.accounts, disputed_transaction.client_id,
                               resolve_apply(account, amount)),
                        e.transactions,
                        e.disputes \ {transaction_id}, Ok)
            ELSE Skip(e)

\* ----------------------------------------------------------- Chargeback arm
\* mutants of the Chargeback arm
chargeback_client_unchecked(client_id, disputed_transaction) == FALSE
chargeback_apply_held_kept(account, amount) ==
    [account EXCEPT !.total = @ - amount, !.locked = TRUE]

chargeback_apply_total_kept(account, amount) ==
    [account EXCEPT !.held = @ - amount, !.locked = TRUE]

chargeback_apply_lock_forgotten(account, amount) ==
    [account EXCEPT !.held = @ - amount, !.total = @ - amount]

\* mutant: the chargeback closes the account instead of locking it
Chargeback_account_closed(e, rec) ==
    LET client_id == rec.client_id
        transaction_id == rec.transaction_id
    IN  IF transaction_id \notin e.disputes THEN Skip(e)
        ELSE IF ~contains_key(e.transactions, transaction_id)
        THEN Fail(e, TransactionNotFound(transaction_id, "Chargeback"))
        ELSE
        LET disputed_transaction == e.transactions[transaction_id]
        IN  IF client_id # disputed_transaction.client_id THEN Skip(e)
            ELSE IF ~contains_key(e.accounts, disputed_transaction.client_id)
            THEN Fail(e, AccountNotFound(client_id, "Resolve"))
            ELSE Outcome(
                    [c \in DOMAIN e.accounts \ {disputed_transaction.client_id}
                        |-> e.accounts[c]],
                    e.transactions,
                    e.disputes \ {transaction_id}, Ok)

chargeback_open_unchecked(e, transaction_id) == FALSE

\* if !self.disputes.contains(&transaction_id)
chargeback_not_disputed(e, transaction_id) == transaction_id \notin e.disputes
\* if client_id != disputed_transaction.client_id
chargeback_client_mismatch(client_id, disputed_transaction) ==
    client_id # disputed_transaction.client_id
\* account.held -= amount; account.total -= amount; account.locked = true;
chargeback_apply(account, amount) ==
    [account EXCEPT !.held = @ - amount, !.total = @ - amount, !.locked = TRUE]

Chargeback(e, rec) ==
    LET client_id == rec.client_id
        transaction_id == rec.transaction_id
    IN  IF chargeback_not_disputed(e, transaction_id) THEN Skip(e)
        ELSE IF ~contains_key(e.transactions, transaction_id)
        THEN Fail(e, TransactionNotFound(transaction_id, "Chargeback"))
        ELSE
        LET disputed_transaction == e.transactions[transaction_id]
        IN  IF chargeback_client_mismatch(client_id, disputed_transaction) THEN Skip(e)
            ELSE IF ~contains_key(e.accounts, disputed_transaction.client_id)
            THEN Fail(e, AccountNotFound(client_id, "Resolve"))
            ELSE IF is_some(disputed_transaction.amount)
            THEN LET amount == unwrap(disputed_transaction.amount)
                     account == e.accounts[disputed_transaction.client_id]
                 IN  Outcome(
                        insert(e.accounts, disputed_transaction.client_id,
                               chargeback_apply(account, amount)),
                        e.transactions,
                        e.disputes \ {transaction_id}, Ok)
            ELSE Skip(e)

\* match record.transaction_type { ... }
process_transaction(e, rec) ==
    CASE rec.transaction_type = "Deposit" -> Deposit(e, rec)
      [] rec.transaction_type = "Withdrawal" -> Withdrawal(e, rec)
      [] rec.transaction_type = "Dispute" -> Dispute(e, rec)
      [] rec.transaction_type = "Resolve" -> Resolve(e, rec)
      [] rec.transaction_type = "Chargeback" -> Chargeback(e, rec)

\* ---------------------------------------------------------- state machine
\* Engine::new(); no record has been processed yet.
Init ==
    /\ accounts = <<>>
    /\ transactions = <<>>
    /\ disputes = {}
    /\ result = Ok
    /\ charged_back = [c \in Clients |-> 0]

\* one call engine.process_transaction(rec) of the driver's loop
InRange(a) ==
    \A c \in DOMAIN a :
        /\ a[c].available \in (0 - MaxBalance)..MaxBalance
        /\ a[c].held \in (0 - MaxBalance)..MaxBalance
        /\ a[c].total \in (0 - MaxBalance)..MaxBalance

\* the history after the call: an accepted chargeback (its id leaves the
\* dispute set) adds the stored amount to its client's sum
charged_back_after(rec, out) ==
    IF /\ rec.transaction_type = "Chargeback"
       /\ rec.transaction_id \in disputes \ out.disputes
    THEN [charged_back EXCEPT
             ![rec.client_id] = @ + unwrap(transactions[rec.transaction_id].amount)]
    ELSE charged_back

Process(rec) ==
    LET out == process_transaction(Engine, rec)
    IN  /\ InRange(out.accounts)
        /\ accounts' = out.accounts
        /\ transactions' = out.transactions
        /\ disputes' = out.disputes
        /\ result' = out.result
        /\ charged_back' = charged_back_after(rec, out)

\* the records of each kind
Deposits == {rec \in TransactionRecord : rec.transaction_type = "Deposit"}
Withdrawals == {rec \in TransactionRecord : rec.transaction_type = "Withdrawal"}
Disputes == {rec \in TransactionRecord : rec.transaction_type = "Dispute"}
Resolves == {rec \in TransactionRecord : rec.transaction_type = "Resolve"}
Chargebacks == {rec \in TransactionRecord : rec.transaction_type = "Chargeback"}

ProcessDeposit == \E rec \in Deposits : Process(rec)
ProcessWithdrawal == \E rec \in Withdrawals : Process(rec)
ProcessDispute == \E rec \in Disputes : Process(rec)
ProcessResolve == \E rec \in Resolves : Process(rec)
ProcessChargeback == \E rec \in Chargebacks : Process(rec)

Next ==
    \/ ProcessDeposit
    \/ ProcessWithdrawal
    \/ ProcessDispute
    \/ ProcessResolve
    \/ ProcessChargeback

Spec == Init /\ [][Next]_vars

\* ------------------------------------------- engine with caller-set fields
\* The fields of Engine are public: a caller can hand process_transaction an
\* engine that no sequence of calls produces (an id in disputes without a
\* stored record, a stored record whose client has no account).  Here the
\* caller has filled transactions and disputes and left accounts empty;
\* accounts then appear through deposits.
AnyStored == {rec \in Deposits : rec.amount = Some(MaxAmount)}

InitAny ==
    /\ accounts = <<>>
    /\ transactions \in
          {t \in UNION {[S -> AnyStored] : S \in SUBSET TxIds} :
              \A k \in DOMAIN t : t[k].transaction_id = k}
    /\ disputes \in SUBSET TxIds
    /\ result = Ok
    /\ charged_back = [c \in Clients |-> 0]

SpecAny == InitAny /\ [][Next]_vars

\* ================================================================== claims
\* what a call on the current engine would return
Call(rec) == process_transaction(Engine, rec)
\* the call returned Ok and left accounts, transactions and disputes as they were
NoChange(out) ==
    /\ out.result = Ok
    /\ out.accounts = accounts
    /\ out.transactions = transactions
    /\ out.disputes = disputes
HasAmount(rec) == rec.amount # None
Amt(rec) == rec.amount[1]
Known(t) == t \in DOMAIN transactions
Stored(t) == transactions[t]
HasAccount(c) == c \in DOMAIN accounts

\* C1: every account satisfies total = available + held in every reachable
\* state.
C1_TotalIsAvailablePlusHeld ==
    \A c \in DOMAIN accounts :
        accounts[c].total = accounts[c].available + accounts[c].held

\* C1 witness: an account with funds both available and held.
C1_Witness ==
    \E c \in DOMAIN accounts :
        /\ accounts[c].available # 0
        /\ accounts[c].held # 0
        /\ accounts[c].total # 0

\* C2: once a chargeback on id t has been accepted, a dispute, resolve or
\* chargeback record on t is soft-rejected: Ok, and nothing changes.  Stated
\* on the step that accepts the chargeback: in the state it leaves, every
\* dispute-family record on t is a no-op.
C2_ChargedBackIsTerminal ==
    [][\A rec \in Chargebacks :
          (/\ Process(rec)
           /\ rec.transaction_id \in disputes
           /\ rec.transaction_id \notin disputes')
          => \A later \in Disputes \cup Resolves \cup Chargebacks :
                later.transaction_id = rec.transaction_id
                => LET out == process_transaction(Engine', later)
                   IN  /\ out.result = Ok
                       /\ out.accounts = accounts'
                       /\ out.transactions = transactions'
                       /\ out.disputes = disputes']_vars

\* C3: a record rejected for a business reason changes nothing.  The reasons,
\* as the claim lists them:
BusinessRejected(rec) ==
    LET c == rec.client_id
        t == rec.transaction_id
        ty == rec.transaction_type
    IN  \/ ty \in {"Deposit", "Withdrawal"} /\ ~HasAmount(rec)
        \/ ty = "Withdrawal" /\ ~HasAccount(c)
        \/ ty \in {"Deposit", "Withdrawal"} /\ HasAccount(c) /\ accounts[c].locked
        \/ ty \in {"Deposit", "Withdrawal"} /\ Known(t)
        \/ ty = "Withdrawal" /\ HasAmount(rec) /\ HasAccount(c)
           /\ accounts[c].available < Amt(rec)
        \/ ty = "Dispute" /\ ~Known(t)
        \/ ty = "Dispute" /\ t \in disputes
        \/ ty \in {"Resolve", "Chargeback"} /\ t \notin disputes
        \/ ty \in {"Dispute", "Resolve", "Chargeback"} /\ Known(t)
           /\ Stored(t).client_id # c

C3_SoftRejectChangesNothing ==
    \A rec \in TransactionRecord : BusinessRejected(rec) => NoChange(Call(rec))

\* C4: a deposit or withdrawal carrying an id that is already in the
\* transaction index moves no funds (every existing account keeps its
\* balances, an account that appears holds nothing) and leaves the stored
\* records as they are.
C4_IdConsumedAtMostOnce ==
    \A rec \in Deposits \cup Withdrawals :
        Known(rec.transaction_id) =>
            LET out == Call(rec)
            IN  /\ out.transactions = transactions
                /\ DOMAIN accounts \subseteq DOMAIN out.accounts
                /\ \A c \in DOMAIN out.accounts :
                      /\ out.accounts[c].available =
                            (IF HasAccount(c) THEN accounts[c].available ELSE 0)
                      /\ out.accounts[c].held =
                            (IF HasAccount(c) THEN accounts[c].held ELSE 0)
                      /\ out.accounts[c].total =
                            (IF HasAccount(c) THEN accounts[c].total ELSE 0)

\* C4 witness: an id stored for one client, and an unlocked account of another
\* client that a deposit or withdrawal of a non-zero amount could reuse it on.
C4_Witness ==
    \E t \in DOMAIN transactions, c \in DOMAIN accounts :
        /\ Stored(t).client_id # c
        /\ ~accounts[c].locked
        /\ accounts[c].available > 0

\* C5: locked changes only from false to true, only by an accepted
\* chargeback on a transaction of that account; no call clears it or removes
\* the account.
C5_LockedOnlySetByChargeback ==
    \A rec \in TransactionRecord :
        LET out == Call(rec)
        IN  /\ DOMAIN accounts \subseteq DOMAIN out.accounts
            /\ \A c \in DOMAIN out.accounts :
                  LET before == IF HasAccount(c) THEN accounts[c].locked ELSE FALSE
                      after == out.accounts[c].locked
                  IN  /\ before => after
                      /\ after # before =>
                            /\ rec.transaction_type = "Chargeback"
                            /\ rec.client_id = c
                            /\ rec.transaction_id \in disputes
                            /\ Known(rec.transaction_id)
                            /\ Stored(rec.transaction_id).client_id = c
                            /\ out.result = Ok

\* C5 witness: a locked account next to an unlocked one that has an open
\* dispute of its own.
C5_Witness ==
    \E c, d \in DOMAIN accounts :
        /\ accounts[c].locked
        /\ ~accounts[d].locked
        /\ \E t \in disputes : Stored(t).client_id = d

\* C6: on a locked account every deposit and every withdrawal of that client
\* is rejected: the account keeps its available, held and total, and the
\* record's id is not entered in the transaction index.
C6_LockedRejectsDepositAndWithdrawal ==
    \A rec \in Deposits \cup Withdrawals :
        (HasAccount(rec.client_id) /\ accounts[rec.client_id].locked) =>
            LET out == Call(rec)
            IN  /\ out.result = Ok
                /\ out.accounts[rec.client_id] = accounts[rec.client_id]
                /\ out.transactions = transactions

\* C6 witness: a locked account with funds available and an id not yet used,
\* so that a deposit or a withdrawal of a non-zero amount carrying that id
\* meets the lock and nothing else.
C6_Witness ==
    \E c \in DOMAIN accounts, t \in TxIds :
        /\ accounts[c].locked
        /\ accounts[c].available > 0
        /\ ~Known(t)

\* the accounts map with client c's account replaced by acct
WithAccount(c, acct) == [x \in DOMAIN accounts |-> IF x = c THEN acct ELSE accounts[x]]

C8_ResolveAcceptedExactlyWhen ==
    \A rec \in Resolves :
        LET c == rec.client_id
            t == rec.transaction_id
            out == Call(rec)
        IN  IF t \in disputes /\ Known(t) /\ Stored(t).client_id = c
            THEN LET a == Stored(t).amount[1]
                     old == accounts[c]
                 IN  /\ out.result = Ok
                     /\ out.accounts =
                           WithAccount(c, [available |-> old.available + a,
                                           held |-> old.held - a,
                                           total |-> old.total,
                                           locked |-> old.locked])
                     /\ out.transactions = transactions
                     /\ out.disputes = disputes \ {t}
                     /\ t \notin out.disputes
            ELSE NoChange(out)

\* C8 witness: a resolve is accepted and moves a non-zero amount back, while
\* another stored transaction is not open (a resolve on it is refused).
C8_Witness ==
    \E rec \in Resolves, u \in DOMAIN transactions :
        /\ rec.transaction_id \in disputes
        /\ Stored(rec.transaction_id).amount # Some(0)
        /\ Call(rec).disputes # disputes
        /\ Call(rec).accounts # accounts
        /\ u \notin disputes

\* C9: a chargeback (c, t) is accepted exactly when t is open and stored for
\* client c; then held and total each fall by the stored amount, available
\* stays, locked becomes true, t leaves the open disputes and nothing else
\* changes; otherwise nothing changes and no account is locked.
C9_ChargebackAcceptedExactlyWhen ==
    \A rec \in Chargebacks :
        LET c == rec.client_id
            t == rec.transaction_id
            out == Call(rec)
        IN  IF t \in disputes /\ Known(t) /\ Stored(t).client_id = c
            THEN LET a == Stored(t).amount[1]
                     old == accounts[c]
                 IN  /\ out.result = Ok
                     /\ out.accounts =
                           WithAccount(c, [available |-> old.available,
                                           held |-> old.held - a,
                                           total |-> old.total - a,
                                           locked |-> TRUE])
                     /\ out.transactions = transactions
                     /\ out.disputes = disputes \ {t}
            ELSE NoChange(out)

\* C9 witness: a chargeback on an open dispute of a non-zero amount is
\* accepted on an unlocked account, next to an account that an earlier
\* chargeback has locked and whose transaction is no longer open.
C9_Witness ==
    \E rec \in Chargebacks, u \in DOMAIN transactions :
        /\ rec.transaction_id \in disputes
        /\ Stored(rec.transaction_id).client_id = rec.client_id
        /\ Stored(rec.transaction_id).amount # Some(0)
        /\ ~accounts[rec.client_id].locked
        /\ Call(rec).accounts[rec.client_id].locked
        /\ u \notin disputes
        /\ accounts[Stored(u).client_id].locked

\* C10: a deposit of amount a for client c under id t, with c's account
\* absent or unlocked and t not stored, creates the account if absent (all
\* zero, unlocked), raises available and total by a, keeps held and locked,
\* stores the record under t and leaves disputes and every other account
\* and every other stored record as they were.
C10_DepositApplied ==
    \A rec \in Deposits :
        LET c == rec.client_id
            t == rec.transaction_id
            out == Call(rec)
        IN  (/\ HasAmount(rec)
             /\ ~HasAccount(c) \/ ~accounts[c].locked
             /\ ~Known(t))
            => LET old == IF HasAccount(c) THEN accounts[c] ELSE Account_new
               IN  /\ out.result = Ok
                   /\ DOMAIN out.accounts = DOMAIN accounts \cup {c}
                   /\ out.accounts[c] =
                         [available |-> old.available + Amt(rec),
                          held |-> old.held,
                          total |-> old.total + Amt(rec),
                          locked |-> old.locked]
                   /\ \A d \in DOMAIN accounts \ {c} : out.accounts[d] = accounts[d]
                   /\ DOMAIN out.transactions = DOMAIN transactions \cup {t}
                   /\ out.transactions[t] = rec
                   /\ \A u \in DOMAIN transactions : out.transactions[u] = Stored(u)
                   /\ out.disputes = disputes

\* C10 witness: a deposit of a non-zero amount is stored and under dispute,
\* and a deposit under a free id would create the account of a client that
\* has none.
C10_Witness ==
    \E t \in disputes, rec \in Deposits :
        /\ Stored(t).transaction_type = "Deposit"
        /\ Stored(t).amount # Some(0)
        /\ HasAmount(rec) /\ Amt(rec) # 0
        /\ ~HasAccount(rec.client_id)
        /\ ~Known(rec.transaction_id)

\* C11: a withdrawal of amount a on an existing, unlocked account under an
\* unused id is applied exactly when available >= a: then available and total
\* each fall by a, held and locked stay, the record is stored and nothing else
\* changes (a = available leaves available = 0); when a > available nothing
\* changes at all.
C11_WithdrawalInclusiveBoundary ==
    \A rec \in Withdrawals :
        LET c == rec.client_id
            t == rec.transaction_id
            out == Call(rec)
        IN  (HasAmount(rec) /\ HasAccount(c) /\ ~accounts[c].locked /\ ~Known(t))
            => LET old == accounts[c]
                   a == Amt(rec)
               IN  IF old.available >= a
                   THEN /\ out.result = Ok
                        /\ out.accounts =
                              WithAccount(c, [available |-> old.available - a,
                                              held |-> old.held,
                                              total |-> old.total - a,
                                              locked |-> old.locked])
                        /\ a = old.available => out.accounts[c].available = 0
                        /\ DOMAIN out.transactions = DOMAIN transactions \cup {t}
                        /\ out.transactions[t] = rec
                        /\ \A u \in DOMAIN transactions : out.transactions[u] = Stored(u)
                        /\ out.disputes = disputes
                   ELSE NoChange(out)

\* C11 witness: a free id, an unlocked account whose positive available
\* balance a withdrawal in the inputs matches exactly, and an unlocked account
\* whose available balance a withdrawal in the inputs exceeds.
C11_Witness ==
    \E exact, above \in Withdrawals :
        /\ HasAccount(exact.client_id) /\ HasAccount(above.client_id)
        /\ ~accounts[exact.client_id].locked /\ ~accounts[above.client_id].locked
        /\ ~Known(exact.transaction_id) /\ ~Known(above.transaction_id)
        /\ HasAmount(exact) /\ HasAmount(above)
        /\ accounts[exact.client_id].available > 0
        /\ Amt(exact) = accounts[exact.client_id].available
        /\ Amt(above) > accounts[above.client_id].available

\* the engine a call leaves, and the next call on it
After(out) ==
    [accounts |-> out.accounts, transactions |-> out.transactions,
     disputes |-> out.disputes]
Then(out, rec) == process_transaction(After(out), rec)
\* the same record with another kind
AsKind(rec, ty) == [rec EXCEPT !.transaction_type = ty]

\* C12: in every reachable state, processing one dispute record twice in a
\* row leaves exactly the engine that processing it once leaves, and both
\* calls return Ok.
C12_DisputeReplayIdempotent ==
    \A rec \in Disputes :
        LET once == Call(rec)
            twice == Then(once, rec)
        IN  /\ once.result = Ok
            /\ twice.result = Ok
            /\ After(twice) = After(once)

\* C12 witness: a dispute that is accepted and moves a non-zero amount, so
\* that its replay meets the dispute it has just opened.
C12_Witness ==
    \E rec \in Disputes :
        /\ Known(rec.transaction_id)
        /\ Stored(rec.transaction_id).amount # Some(0)
        /\ rec.transaction_id \notin disputes
        /\ rec.transaction_id \in Call(rec).disputes
        /\ Call(rec).accounts[rec.client_id].held # accounts[rec.client_id].held

\* C13: in every reachable state, an accepted dispute (c, t) followed at once
\* by the resolve (c, t) leaves the engine exactly as it was before the
\* dispute, and a further dispute (c, t) is then accepted again, with the
\* outcome of the first.
C13_DisputeResolveRoundTrip ==
    \A rec \in Disputes :
        LET t == rec.transaction_id
            disputed == Call(rec)
            resolved == Then(disputed, AsKind(rec, "Resolve"))
            again == Then(resolved, rec)
        IN  (t \notin disputes /\ t \in disputed.disputes)
            => /\ resolved.result = Ok
               /\ After(resolved) = Engine
               /\ t \in again.disputes
               /\ again = disputed

\* C13 witness: an accepted dispute of a non-zero amount on an account that
\* also holds another open dispute.
C13_Witness ==
    \E rec \in Disputes, u \in disputes :
        /\ Known(rec.transaction_id)
        /\ Stored(rec.transaction_id).amount # Some(0)
        /\ rec.transaction_id \in Call(rec).disputes
        /\ rec.transaction_id \notin disputes
        /\ Stored(u).client_id = rec.client_id
        /\ Stored(u).amount # Some(0)

\* C14: a dispute, resolve or chargeback whose client differs from the
\* client of the record stored under its id returns Ok and changes no
\* account, not the dispute set, not the stored records, and locks nothing.
C14_ClientMismatchRejected ==
    \A rec \in Disputes \cup Resolves \cup Chargebacks :
        (Known(rec.transaction_id)
         /\ Stored(rec.transaction_id).client_id # rec.client_id)
        => NoChange(Call(rec))

\* C14 witness: both clients have an account; one transaction of a non-zero
\* amount is under open dispute (a resolve or chargeback by the other client
\* meets only the client check) and another is stored and not open (so does
\* a dispute by the other client).
C14_Witness ==
    \E t \in disputes, u \in DOMAIN transactions :
        /\ u \notin disputes
        /\ Stored(t).amount # Some(0)
        /\ Stored(u).amount # Some(0)
        /\ \E c \in DOMAIN accounts : c # Stored(t).client_id /\ ~accounts[c].locked
        /\ \E c \in DOMAIN accounts : c # Stored(u).client_id /\ ~accounts[c].locked

\* C15: a deposit or withdrawal that is rejected for a business reason does
\* not enter the transaction index; so, when its id t was free, a dispute on
\* t afterwards changes nothing (unknown transaction), and a later deposit
\* (account absent or unlocked) or withdrawal (account present, unlocked,
\* funds sufficient) carrying t is applied and stored under t.
C15_RejectedRecordKeepsIdFree ==
    \A rec \in Deposits \cup Withdrawals :
        LET t == rec.transaction_id
            out == Call(rec)
        IN  (BusinessRejected(rec) /\ ~Known(t))
            => /\ out.result = Ok
               /\ out.transactions = transactions
               /\ \A d \in Disputes :
                     d.transaction_id = t
                     => LET o == Then(out, d)
                        IN  o.result = Ok /\ After(o) = After(out)
               /\ \A dep \in Deposits :
                     (/\ dep.transaction_id = t
                      /\ HasAmount(dep)
                      /\ dep.client_id \in DOMAIN out.accounts
                            => ~out.accounts[dep.client_id].locked)
                     => LET o == Then(out, dep)
                        IN  /\ t \in DOMAIN o.transactions
                            /\ o.transactions[t] = dep
                            /\ o.accounts[dep.client_id].total =
                                  (IF dep.client_id \in DOMAIN out.accounts
                                   THEN out.accounts[dep.client_id].total
                                   ELSE 0) + Amt(dep)
               /\ \A wd \in Withdrawals :
                     (/\ wd.transaction_id = t
                      /\ HasAmount(wd)
                      /\ wd.client_id \in DOMAIN out.accounts
                      /\ ~out.accounts[wd.client_id].locked
                      /\ out.accounts[wd.client_id].available >= Amt(wd))
                     => LET o == Then(out, wd)
                        IN  /\ t \in DOMAIN o.transactions
                            /\ o.transactions[t] = wd
                            /\ o.accounts[wd.client_id].total =
                                  out.accounts[wd.client_id].total - Amt(wd)

\* C15 witness: a withdrawal under a free id on an unlocked account that
\* holds a positive balance smaller than the amount asked for.
C15_Witness ==
    \E rec \in Withdrawals :
        /\ HasAmount(rec)
        /\ HasAccount(rec.client_id)
        /\ ~accounts[rec.client_id].locked
        /\ ~Known(rec.transaction_id)
        /\ accounts[rec.client_id].total > 0
        /\ accounts[rec.client_id].available < Amt(rec)

\* a deposit or withdrawal that passes every check but the funds check
Admissible(rec) ==
    /\ HasAmount(rec)
    /\ ~Known(rec.transaction_id)
    /\ IF rec.transaction_type = "Deposit"
       THEN HasAccount(rec.client_id) => ~accounts[rec.client_id].locked
       ELSE HasAccount(rec.client_id) /\ ~accounts[rec.client_id].locked

\* what C16 says of a record of amount 0 that is applied: every balance is
\* as before (a created account is all zero), the record is stored under its
\* id, a later deposit or withdrawal carrying that id changes neither the
\* index nor a balance, and a dispute on it by its client is accepted.
ZeroAmountApplied(rec) ==
    LET c == rec.client_id
        t == rec.transaction_id
        out == Call(rec)
    IN  /\ out.result = Ok
        /\ DOMAIN out.accounts = DOMAIN accounts \cup {c}
        /\ out.accounts[c] = (IF HasAccount(c) THEN accounts[c] ELSE Account_new)
        /\ \A d \in DOMAIN accounts : out.accounts[d] = accounts[d]
        /\ DOMAIN out.transactions = DOMAIN transactions \cup {t}
        /\ out.transactions[t] = rec
        /\ out.disputes = disputes
        /\ \A again \in Deposits \cup Withdrawals :
              again.transaction_id = t
              => LET o == Then(out, again)
                 IN  /\ o.transactions = out.transactions
                     /\ \A d \in DOMAIN out.accounts :
                           o.accounts[d] = out.accounts[d]
        /\ t \in Then(out, AsKind([rec EXCEPT !.amount = None], "Dispute")).disputes

\* C16, as claimed: a deposit or withdrawal of amount 0 under an unused id, on
\* an unlocked account (for a withdrawal: an existing one), is applied.
C16_ZeroAmountAlwaysApplied ==
    \A rec \in Deposits \cup Withdrawals :
        (Admissible(rec) /\ Amt(rec) = 0) => ZeroAmountApplied(rec)

\* C16, amended: the same, for a withdrawal only when the available balance
\* is not negative (the funds check available >= 0 applies to it as to any
\* withdrawal); a withdrawal of 0 on a negative available balance changes
\* nothing and leaves its id free.
C16_ZeroAmountApplied ==
    \A rec \in Deposits \cup Withdrawals :
        (Admissible(rec) /\ Amt(rec) = 0)
        => IF rec.transaction_type = "Withdrawal"
              /\ accounts[rec.client_id].available < 0
           THEN NoChange(Call(rec))
           ELSE ZeroAmountApplied(rec)

\* C16 witness: a stored record of amount 0 is under open dispute, and a
\* withdrawal of 0 under the free id is admissible on an account whose
\* available balance is not negative.
C16_Witness ==
    /\ \E t \in disputes : Stored(t).amount = Some(0)
    /\ \E rec \in Withdrawals :
          /\ Admissible(rec)
          /\ Amt(rec) = 0
          /\ accounts[rec.client_id].available >= 0

\* C17: accounts appear only by an applied deposit and never disappear: every
\* client in the accounts map is the client of a stored deposit, a call adds a
\* key only if it is a deposit that is applied (stored under its id), and no
\* call removes a key.
C17_AccountsOnlyByAppliedDeposit ==
    /\ \A c \in DOMAIN accounts :
          \E t \in DOMAIN transactions :
             Stored(t).transaction_type = "Deposit" /\ Stored(t).client_id = c
    /\ \A rec \in TransactionRecord :
          LET out == Call(rec)
          IN  /\ DOMAIN accounts \subseteq DOMAIN out.accounts
              /\ DOMAIN out.accounts # DOMAIN accounts
                 => /\ rec.transaction_type = "Deposit"
                    /\ ~Known(rec.transaction_id)
                    /\ rec.transaction_id \in DOMAIN out.transactions

C19_NoStructuralError ==
    /\ disputes \subseteq DOMAIN transactions
    /\ \A t \in DOMAIN transactions : HasAccount(Stored(t).client_id)
    /\ result = Ok
    /\ \A rec \in TransactionRecord : Call(rec).result = Ok

\* C19 witness: the dispute, resolve and chargeback arms all reach their
\* structural guards: one transaction is open, another is stored and not
\* open, and an account is locked.
C19_Witness ==
    \E t \in disputes, u \in DOMAIN transactions, c \in DOMAIN accounts :
        /\ u \notin disputes
        /\ accounts[c].locked

\* C20: a record of client c changes no account but c's: every other
\* account is there before and after, with the same available, held, total
\* and locked, whatever the kind of the record and whether it is applied.
C20_ClientIsolation ==
    \A rec \in TransactionRecord :
        LET out == Call(rec)
        IN  /\ DOMAIN out.accounts \ {rec.client_id} = DOMAIN accounts \ {rec.client_id}
            /\ \A d \in DOMAIN accounts \ {rec.client_id} :
                  out.accounts[d] = accounts[d]

\* C20 witness: two accounts, and for the client of one of them a
\* transaction of a non-zero amount under open dispute and one stored and
\* not open, which records of the other client name in vain.
C20_Witness ==
    \E t \in disputes, u \in DOMAIN transactions, c \in DOMAIN accounts :
        /\ u \notin disputes
        /\ Stored(t).amount # Some(0)
        /\ Stored(u).amount # Some(0)
        /\ c # Stored(t).client_id
        /\ c # Stored(u).client_id

\* C21: the transaction index only grows and holds only deposits and
\* withdrawals: every entry is keyed by its own id, is a deposit or a
\* withdrawal and has an amount; no call removes or changes an entry, and a
\* dispute, resolve or chargeback leaves the index as it is.
C21_IndexOnlyGrows ==
    /\ \A t \in DOMAIN transactions :
          /\ Stored(t).transaction_id = t
          /\ Stored(t).transaction_type \in {"Deposit", "Withdrawal"}
          /\ Stored(t).amount # None
    /\ \A rec \in TransactionRecord :
          LET out == Call(rec)
          IN  /\ DOMAIN transactions \subseteq DOMAIN out.transactions
              /\ \A t \in DOMAIN transactions : out.transactions[t] = Stored(t)
              /\ rec.transaction_type \in {"Dispute", "Resolve", "Chargeback"}
                 => out.transactions = transactions

\* C21 witness: a stored deposit and a stored withdrawal, one of them under
\* open dispute, on an unlocked account with funds (a deposit or withdrawal
\* reusing an id would get past every check but the id check).
C21_Witness ==
    \E t, u \in DOMAIN transactions :
        /\ Stored(t).transaction_type = "Deposit"
        /\ Stored(u).transaction_type = "Withdrawal"
        /\ disputes # {}
        /\ ~accounts[Stored(u).client_id].locked
        /\ accounts[Stored(u).client_id].available > 0

\* C22: nothing is kept of a dispute, resolve or chargeback that names an id
\* not yet stored: the call changes nothing, and a deposit under that id
\* processed next has the outcome it would have had without it; when the
\* deposit is applied, its amount is added to available, held is as before
\* and the id is not under open dispute.
C22_NoBufferingOfEarlyDispute ==
    \A early \in Disputes \cup Resolves \cup Chargebacks :
        ~Known(early.transaction_id) =>
            LET out == Call(early)
            IN  /\ NoChange(out)
                /\ \A dep \in Deposits :
                      dep.transaction_id = early.transaction_id
                      => LET o == Then(out, dep)
                             c == dep.client_id
                             old == IF HasAccount(c) THEN accounts[c] ELSE Account_new
                         IN  /\ o = Call(dep)
                             /\ dep.transaction_id \notin o.disputes
                             /\ dep.transaction_id \in DOMAIN o.transactions
                                => /\ o.accounts[c].available = old.available + Amt(dep)
                                   /\ o.accounts[c].held = old.held

\* C22 witness: a free id, while another transaction is under open dispute
\* on an unlocked account (so the early record is refused for its id alone,
\* and the later deposit is applied next to held funds).
C22_Witness ==
    \E t \in TxIds, u \in disputes :
        /\ ~Known(t)
        /\ Stored(u).amount # Some(0)
        /\ ~accounts[Stored(u).client_id].locked

\* the pairs of records of different clients on different transaction ids
\* (each unordered pair once)
IndependentPairs ==
    {p \in TransactionRecord \X TransactionRecord :
        /\ p[1].client_id < p[2].client_id
        /\ p[1].transaction_id # p[2].transaction_id}

\* A then B, and B then A, from the current engine, agree on the engine left
\* and on the result of A and of B
Commute(A, B) ==
    LET a1 == Call(A)
        b1 == Then(a1, B)
        b2 == Call(B)
        a2 == Then(b2, A)
    IN  /\ After(b1) = After(a2)
        /\ a1.result = a2.result
        /\ b1.result = b2.result

\* C23: always, in every reachable state, two records of different clients on
\* different transaction ids commute: either order leaves the same accounts,
\* transaction index and dispute set and returns the same two results.
C23_IndependentRecordsCommute ==
    [](\A p \in IndependentPairs : Commute(p[1], p[2]))

\* C23 witness: each of two clients has a stored transaction of a non-zero
\* amount, one under open dispute and one not, so that records of the two
\* clients on the two ids are both accepted in either order.
C23_Witness ==
    \E t \in disputes, u \in DOMAIN transactions :
        /\ u \notin disputes
        /\ Stored(t).client_id # Stored(u).client_id
        /\ Stored(t).amount # Some(0)
        /\ Stored(u).amount # Some(0)

\* the call returned the structural error of the given variant and left
\* accounts, transactions and disputes as they were
StructuralNoChange(out, variant) ==
    /\ out.result.tag = variant
    /\ out.accounts = accounts
    /\ out.transactions = transactions
    /\ out.disputes = disputes

\* a resolve or chargeback on an id of the dispute set without stored record
\* returns TransactionNotFound and changes nothing
MissingRecordIsStructural ==
    \A rec \in Resolves \cup Chargebacks :
        (rec.transaction_id \in disputes /\ ~Known(rec.transaction_id))
        => StructuralNoChange(Call(rec), "TransactionNotFound")

\* the stored record of the record's id belongs to the record's client, and
\* that client has no account
OwnerWithoutAccount(rec) ==
    /\ Known(rec.transaction_id)
    /\ Stored(rec.transaction_id).client_id = rec.client_id
    /\ ~HasAccount(rec.client_id)

\* the record passes the dispute-set check of its arm: a dispute needs the id
\* outside the set, a resolve or chargeback needs it inside
PassesDisputeSetCheck(rec) ==
    IF rec.transaction_type = "Dispute"
    THEN rec.transaction_id \notin disputes
    ELSE rec.transaction_id \in disputes

\* C24 as stated: whatever the engine's fields hold, a resolve or chargeback
\* on an id of the dispute set without stored record returns
\* TransactionNotFound, and every dispute, resolve or chargeback whose stored
\* record's client (equal to the record's client) has no account returns
\* AccountNotFound; nothing changes in either case.
C24_StructuralErrorWheneverInconsistent ==
    /\ MissingRecordIsStructural
    /\ \A rec \in Disputes \cup Resolves \cup Chargebacks :
           OwnerWithoutAccount(rec)
           => StructuralNoChange(Call(rec), "AccountNotFound")

\* C24 (amended): whatever the engine's fields hold, a resolve or chargeback
\* on an id of the dispute set without stored record returns
\* TransactionNotFound; a dispute on an id outside the dispute set, or a
\* resolve or chargeback on an id inside it, whose stored record's client
\* (equal to the record's client) has no account returns AccountNotFound;
\* nothing changes in either case.  The dispute-set check comes first: a
\* record that fails it is skipped with Ok.
C24_StructuralErrorOnInconsistentState ==
    /\ MissingRecordIsStructural
    /\ \A rec \in Disputes \cup Resolves \cup Chargebacks :
           IF PassesDisputeSetCheck(rec)
           THEN OwnerWithoutAccount(rec)
                => StructuralNoChange(Call(rec), "AccountNotFound")
           ELSE NoChange(Call(rec))

\* C24 witness: the last call returned AccountNotFound, an id of the dispute
\* set has no stored record, and a dispute on an id outside the set meets a
\* stored record whose client has no account.
C24_Witness ==
    /\ result.tag = "AccountNotFound"
    /\ \E t \in disputes : ~Known(t)
    /\ \E rec \in Disputes :
           PassesDisputeSetCheck(rec) /\ OwnerWithoutAccount(rec)

\* C27: whatever the engine's fields hold, a structural error returned for a
\* record carries that record's kind as transaction_type; AccountNotFound
\* carries the record's client id and TransactionNotFound the record's
\* transaction id.
C27_ErrorCarriesRecordKind ==
    \A rec \in TransactionRecord :
        LET err == Call(rec).result
        IN  /\ err.tag = "AccountNotFound"
               => /\ err.transaction_type = rec.transaction_type
                  /\ err.client_id = rec.client_id
            /\ err.tag = "TransactionNotFound"
               => /\ err.transaction_type = rec.transaction_type
                  /\ err.transaction_id = rec.transaction_id

\* the transaction ids under open dispute whose stored record is of client c
OpenDisputesOf(c) ==
    {t \in disputes : Known(t) /\ Stored(t).client_id = c}

\* the sum of the stored amounts of the ids in S
RECURSIVE SumStoredAmounts(_)
SumStoredAmounts(S) ==
    IF S = {} THEN 0
    ELSE LET t == CHOOSE x \in S : TRUE
         IN  Amt(Stored(t)) + SumStoredAmounts(S \ {t})

\* C25: in every reachable state each account's held equals the sum of the
\* stored amounts of the ids under open dispute whose stored record is of
\* that client; so held is zero for a client without open dispute and is not
\* negative when the amounts under open dispute are not negative.
C25_HeldMirrorsOpenDisputes ==
    \A c \in DOMAIN accounts :
        /\ accounts[c].held = SumStoredAmounts(OpenDisputesOf(c))
        /\ OpenDisputesOf(c) = {} => accounts[c].held = 0
        /\ (\A t \in OpenDisputesOf(c) : Amt(Stored(t)) >= 0)
           => accounts[c].held >= 0

\* C25 witness: one client has two open disputes of positive amounts and
\* holds their sum.
C25_Witness ==
    \E c \in DOMAIN accounts :
        /\ Cardinality(OpenDisputesOf(c)) = 2
        /\ \A t \in OpenDisputesOf(c) : Amt(Stored(t)) > 0
        /\ accounts[c].held = SumStoredAmounts(OpenDisputesOf(c))
        /\ accounts[c].held > MaxAmount

\* the sum of the stored amounts of the records of the given kind applied to
\* client c (an applied deposit or withdrawal is stored under its id, and a
\* stored record is never removed or replaced)
AppliedOf(c, ty) ==
    {t \in DOMAIN transactions :
        Stored(t).client_id = c /\ Stored(t).transaction_type = ty}

\* C26: in every reachable state each account's total equals the sum of the
\* amounts of the deposits applied to it, minus the sum of the amounts of the
\* withdrawals applied to it, minus the sum of the amounts of the chargebacks
\* accepted on it (a client without account has none of the three); a dispute
\* or resolve record never changes any account's total.
C26_ConservationOfFunds ==
    /\ \A c \in Clients :
           IF HasAccount(c)
           THEN accounts[c].total =
                    SumStoredAmounts(AppliedOf(c, "Deposit"))
                    - SumStoredAmounts(AppliedOf(c, "Withdrawal"))
                    - charged_back[c]
           ELSE /\ AppliedOf(c, "Deposit") = {}
                /\ AppliedOf(c, "Withdrawal") = {}
                /\ charged_back[c] = 0
    /\ \A rec \in Disputes \cup Resolves :
           LET out == Call(rec)
           IN  /\ DOMAIN out.accounts = DOMAIN accounts
               /\ \A c \in DOMAIN accounts :
                      out.accounts[c].total = accounts[c].total

\* C26 witness: an account has an applied deposit, an applied withdrawal and
\* an accepted chargeback of a non-zero amount, and another of its
\* transactions is under open dispute.
C26_Witness ==
    \E c \in DOMAIN accounts :
        /\ AppliedOf(c, "Deposit") # {}
        /\ AppliedOf(c, "Withdrawal") # {}
        /\ charged_back[c] # 0
        /\ OpenDisputesOf(c) # {}

====
